---------------------------- MODULE Spec2Model ----------------------------
(***************************************************************************)
(* A model of gs-tools.py: the name normaliser, the two roster builders,   *)
(* the selection prompt and the extension batch of main_extend.            *)
(*                                                                         *)
(* A Python str is a sequence of one-character strings, so that split,     *)
(* strip, lower, isdigit, int and difflib's ratio are computed character   *)
(* by character.  An e-mail address that the code only stores and passes   *)
(* on is an atom (a TLA+ string); the forum e-mail field, which the code   *)
(* splits, is a character sequence.  An uncaught Python exception ends the *)
(* run: pc = "error" and err names the exception.                          *)
(***************************************************************************)
EXTENDS Integers, Sequences, FiniteSets, TLC

VARIABLES
    pc,            \* where the running function stands
    err,           \* "" or the name of the uncaught exception
    name_str,      \* normalize_name: the argument
    name,          \* normalize_name: the value returned
    rows,          \* read_gradescope_roster: the csv rows after the header
    students,      \* interactive_setup: pz_course.get_all_users()
    valid_emails,  \* interactive_setup: the grading platform's e-mails
    sans_emails,   \* interactive_setup: names without a valid e-mail
    roster,        \* the roster dict: name -> e-mail
    k,             \* the loop position of a roster builder
    names,         \* main_extend: args.names
    nassign,       \* main_extend: len(assignments)
    days,          \* main_extend: args.days
    i,             \* main_extend: position of the first loop in args.names
    ambig_names,   \* main_extend: the queued (student_name, close_matches)
    j,             \* main_extend: position of the second loop in ambig_names
    calls,         \* the apply_extension calls made, in order
    out,           \* what main_extend has printed, in order
    options,       \* selection_helper: the options shown
    entered,       \* selection_helper: the text the last input() returned
    ix             \* selection_helper: the local ix (None, or a number)

vars == <<pc, err, name_str, name, rows, students, valid_emails, sans_emails,
          roster, k, names, nassign, days, i, ambig_names, j, calls, out,
          options, entered, ix>>

normVars == <<name_str, name>>
forumVars == <<students, valid_emails, sans_emails>>
extVars == <<names, nassign, days, i, ambig_names, j, calls, out>>
selVars == <<options, entered, ix>>

-----------------------------------------------------------------------------
(* Bounds of the model. *)

MaxStrLen == 3      \* longest enumerated argument of normalize_name
MaxRows == 2        \* rows of a roster export / forum users
MaxNames == 2       \* names on the command line
MaxAssign == 2      \* assignments the title filter returns
MaxRoster == 2      \* entries of the course roster

None == "None"

-----------------------------------------------------------------------------
(* Python's str operations, on sequences of characters. *)

Str(n, alphabet) == UNION {[1..m -> alphabet] : m \in 0..n}

\* str.lower(), one character
LowerChar(c) ==
    CASE c = "A" -> "a" [] c = "B" -> "b" [] c = "C" -> "c" [] c = "D" -> "d"
      [] c = "J" -> "j" [] c = "S" -> "s" [] OTHER -> c

lower(s) == [n \in 1..Len(s) |-> LowerChar(s[n])]

IsSpace(c) == c \in {" ", "\t"}

RECURSIVE lstrip(_)
lstrip(s) == IF s # <<>> /\ IsSpace(Head(s)) THEN lstrip(Tail(s)) ELSE s

RECURSIVE rstrip(_)
rstrip(s) ==
    IF s # <<>> /\ IsSpace(s[Len(s)]) THEN rstrip(SubSeq(s, 1, Len(s) - 1)) ELSE s

strip(s) == rstrip(lstrip(s))

StartsWith(s, sep) == Len(s) >= Len(sep) /\ SubSeq(s, 1, Len(sep)) = sep

\* str.split(sep): the parts between the occurrences of sep, left to right
RECURSIVE SplitFrom(_, _, _)
SplitFrom(s, sep, cur) ==
    IF s = <<>> THEN <<cur>>
    ELSE IF StartsWith(s, sep)
         THEN <<cur>> \o SplitFrom(SubSeq(s, Len(sep) + 1, Len(s)), sep, <<>>)
         ELSE SplitFrom(Tail(s), sep, Append(cur, Head(s)))

split(s, sep) == SplitFrom(s, sep, <<>>)

Ok(v) == [err |-> "", val |-> v]
Raise(e) == [err |-> e, val |-> None]

-----------------------------------------------------------------------------
(* normalize_name *)

\* Line 37 evaluates len(name) before the local name is assigned: with two or
\* more parts Python raises UnboundLocalError and lines 38 and 40 never run.
normalize_name(s) ==
    LET split_name == split(s, <<",">>)
    IN IF Len(split_name) = 1
       THEN Ok(split_name[1])
       ELSE Raise("UnboundLocalError")


NoRoster == [n \in {} |-> None]

\* roster[key] = email
Put(r, key, email) ==
    [n \in (DOMAIN r) \cup {key} |-> IF n = key THEN email ELSE r[n]]

IdleNorm == name_str = <<>> /\ name = None
IdleBuild == rows = <<>> /\ roster = NoRoster /\ k = 0
IdleForum == students = <<>> /\ valid_emails = {} /\ sans_emails = <<>>
IdleExtend ==
    /\ names = <<>> /\ nassign = 0 /\ days = 0 /\ i = 0 /\ ambig_names = <<>>
    /\ j = 0 /\ calls = <<>> /\ out = <<>>
IdleSelect == options = <<>> /\ entered = <<>> /\ ix = None

DoeJane == <<"D", "o", "e", ",", " ", "J", "a", "n", "e">>
JaneDoe == <<"J", "a", "n", "e", " ", "D", "o", "e">>
SmithBob == <<"S", "m", "i", "t", "h", ",", " ", "B", "o", "b">>

NormAlphabet == {"a", "B", " ", ","}
NormInputs == Str(MaxStrLen, NormAlphabet) \cup {DoeJane, JaneDoe, SmithBob}

NormInit ==
    /\ pc = "normalize" /\ err = ""
    /\ name_str \in NormInputs /\ name = None
    /\ IdleBuild /\ IdleForum /\ IdleExtend /\ IdleSelect

NormalizeCall ==
    /\ pc = "normalize"
    /\ LET r == normalize_name(name_str)
       IN /\ name' = r.val
          /\ err' = r.err
          /\ pc' = IF r.err = "" THEN "done" ELSE "error"
    /\ UNCHANGED <<name_str, rows, roster, k, forumVars, extVars, selVars>>

NormNext == NormalizeCall

SpecNormalize == NormInit /\ [][NormNext]_vars

-----------------------------------------------------------------------------
(* read_gradescope_roster: one action per csv row after the header.  An     *)
(* entry is <<name, SID, email, role>>; Python's entry[0], entry[2] and     *)
(* entry[3] are entry[1], entry[3] and entry[4] here.                       *)

GsNames == {DoeJane, JaneDoe, SmithBob}
GsEntries ==
    {<<n, s, e, r>> : n \in GsNames, s \in {"S1", "S2"},
                      e \in {"jane@x.edu", "bob@x.edu"}, r \in {"Student", "TA"}}

GsInit ==
    /\ pc = "gs_rows" /\ err = ""
    /\ rows \in Str(MaxRows, GsEntries)
    /\ roster = NoRoster /\ k = 1
    /\ IdleNorm /\ IdleForum /\ IdleExtend /\ IdleSelect

ReadGradescopeRow ==
    /\ pc = "gs_rows" /\ k <= Len(rows)
    /\ LET entry == rows[k]
           r == normalize_name(entry[1])
       IN IF entry[4] = "Student"
          THEN IF r.err = ""
               THEN /\ roster' = Put(roster, r.val, entry[3])
                    /\ k' = k + 1
                    /\ UNCHANGED <<pc, err>>
               ELSE /\ pc' = "error" /\ err' = r.err
                    /\ UNCHANGED <<roster, k>>
          ELSE /\ k' = k + 1
               /\ UNCHANGED <<roster, pc, err>>
    /\ UNCHANGED <<rows, normVars, forumVars, extVars, selVars>>

ReadGradescopeReturn ==
    /\ pc = "gs_rows" /\ k > Len(rows)
    /\ pc' = "done"
    /\ UNCHANGED <<err, rows, roster, k, normVars, forumVars, extVars, selVars>>

GsNext == ReadGradescopeRow \/ ReadGradescopeReturn

SpecGradescope == GsInit /\ [][GsNext]_vars

-----------------------------------------------------------------------------
(* interactive_setup, lines 169-187: the roster built from the forum's      *)
(* users.  One action per user of pz_course.get_all_users(); the filter of  *)
(* line 169 is lazy, so a user who is no student is skipped in turn.        *)

\* The inner loop of lines 176-180 over emails (never empty: split returns at
\* least one part): valid_email is the first e-mail in valid (None without
\* one), and email is the loop variable as the loop leaves it: the e-mail the
\* break stopped on, or the last one when the loop ran to its end.
ScanNoBreak(emails, valid) ==
    LET hits == {n \in 1..Len(emails) : emails[n] \in valid}
    IN [valid_email |-> IF hits = {} THEN None
                        ELSE emails[CHOOSE n \in hits : \A m \in hits : m <= n],
        email |-> emails[Len(emails)]]
ScanEmails(emails, valid) ==
    LET hits == {n \in 1..Len(emails) : emails[n] \in valid}
        first == CHOOSE n \in hits : \A m \in hits : n <= m
    IN IF hits = {}
       THEN [valid_email |-> None, email |-> emails[Len(emails)]]
       ELSE [valid_email |-> emails[first], email |-> emails[first]]

ForumNames == {<<"A", "b">>, <<"a", "b">>, <<"c", "d">>}
AtX == <<"a", "@", "x">>
AtY == <<"a", "@", "y">>
AtZ == <<"a", "@", "z">>
ForumEmails == {AtX, AtY, AtZ}

RECURSIVE Joined(_)
Joined(es) ==
    IF Len(es) = 1 THEN es[1] ELSE es[1] \o <<",", " ">> \o Joined(Tail(es))

\* a user's e-mail field: the user's addresses joined by ", "
EmailFields ==
    {Joined(es) : es \in {<<AtX>>, <<AtY>>, <<AtX, AtY>>, <<AtY, AtX>>,
                          <<AtZ, AtY, AtX>>}}

ForumUsers ==
    [name : ForumNames, email : EmailFields, role : {"student"}]
        \cup {[name |-> <<"T", "a">>, email |-> AtX, role |-> "instructor"]}

ForumInit ==
    /\ pc = "forum_users" /\ err = ""
    /\ students \in Str(MaxRows, ForumUsers)
    /\ valid_emails \in SUBSET ForumEmails
    /\ sans_emails = <<>>
    /\ rows = <<>> /\ roster = NoRoster /\ k = 1
    /\ IdleNorm /\ IdleExtend /\ IdleSelect

ForumUser ==
    /\ pc = "forum_users" /\ k <= Len(students)
    /\ LET student == students[k]
           lname == lower(student.name)
           emails == split(student.email, <<",", " ">>)
           scan == ScanEmails(emails, valid_emails)
       IN IF student.role # "student"
          THEN UNCHANGED <<roster, sans_emails>>
          ELSE IF scan.valid_email = None
               THEN /\ sans_emails' = Append(sans_emails, lname)
                    /\ UNCHANGED roster
               ELSE /\ roster' = Put(roster, lname, scan.email)
                    /\ UNCHANGED sans_emails
    /\ k' = k + 1
    /\ UNCHANGED <<pc, err, rows, students, valid_emails, normVars, extVars, selVars>>

\* lines 186-187: the warning is printed and the build goes on to the identifier
ForumBuilt ==
    /\ pc = "forum_users" /\ k > Len(students)
    /\ pc' = "done"
    /\ UNCHANGED <<err, rows, roster, k, forumVars, normVars, extVars, selVars>>

ForumNext == ForumUser \/ ForumBuilt

SpecForum == ForumInit /\ [][ForumNext]_vars

-----------------------------------------------------------------------------
(* difflib.get_close_matches(word, possibilities, n=5), as line 260 calls   *)
(* it: the cutoff is difflib's default 0.6, and a score is                  *)
(* SequenceMatcher(a=possibility, b=word).ratio() = 2*M/T, kept here as the *)
(* pair of M (matched characters) and T (the two lengths added).            *)

Min(a, b) == IF a <= b THEN a ELSE b

\* find_longest_match: the longest block a[blk.a ..] = b[blk.b ..]; of the
\* longest, the one starting earliest in a, and of those earliest in b
LongestMatch(a, b) ==
    LET blocks == {blk \in [a : 1..Len(a), b : 1..Len(b),
                            size : 1..Min(Len(a), Len(b))] :
                     /\ blk.a + blk.size - 1 <= Len(a)
                     /\ blk.b + blk.size - 1 <= Len(b)
                     /\ SubSeq(a, blk.a, blk.a + blk.size - 1)
                          = SubSeq(b, blk.b, blk.b + blk.size - 1)}
        Before(x, y) ==
            \/ x.size > y.size
            \/ x.size = y.size /\ x.a < y.a
            \/ x.size = y.size /\ x.a = y.a /\ x.b <= y.b
    IN IF blocks = {} THEN [a |-> 1, b |-> 1, size |-> 0]
       ELSE CHOOSE x \in blocks : \A y \in blocks : Before(x, y)

\* get_matching_blocks: the sizes of the blocks added up (Ratcliff/Obershelp)
RECURSIVE MatchCount(_, _)
MatchCount(a, b) ==
    IF a = <<>> \/ b = <<>> THEN 0
    ELSE LET blk == LongestMatch(a, b)
         IN IF blk.size = 0 THEN 0
            ELSE blk.size
                 + MatchCount(SubSeq(a, 1, blk.a - 1), SubSeq(b, 1, blk.b - 1))
                 + MatchCount(SubSeq(a, blk.a + blk.size, Len(a)),
                              SubSeq(b, blk.b + blk.size, Len(b)))

\* ratio() >= 0.6; two empty strings have ratio 1.0
IsClose(x, word) ==
    LET total == Len(x) + Len(word)
    IN total = 0 \/ 10 * 2 * MatchCount(x, word) >= 6 * total

\* ord() of the characters of the roster keys
Ord(c) ==
    CASE c = " " -> 32 [] c = "A" -> 65 [] c = "B" -> 66 [] c = "C" -> 67
      [] c = "a" -> 97 [] c = "b" -> 98 [] c = "c" -> 99 [] c = "d" -> 100
      [] c = "x" -> 120 [] c = "y" -> 121 [] c = "z" -> 122

\* Python's x < y on str
RECURSIVE StrLess(_, _)
StrLess(x, y) ==
    IF y = <<>> THEN FALSE
    ELSE IF x = <<>> THEN TRUE
    ELSE IF Head(x) = Head(y) THEN StrLess(Tail(x), Tail(y))
    ELSE Ord(Head(x)) < Ord(Head(y))

\* (score, x) < (score, y) on the tuples heapq.nlargest orders
ScoredLess(x, y, word) ==
    LET mx == MatchCount(x, word)
        my == MatchCount(y, word)
        tx == Len(x) + Len(word)
        ty == Len(y) + Len(word)
    IN \/ mx * ty < my * tx
       \/ mx * ty = my * tx /\ StrLess(x, y)

RECURSIVE Largest(_, _)
Largest(S, word) ==
    IF S = {} THEN <<>>
    ELSE LET top == CHOOSE x \in S : \A y \in S \ {x} : ScoredLess(y, x, word)
         IN <<top>> \o Largest(S \ {top}, word)

n_close == 5

get_close_matches(word, possibilities) ==
    LET close == Largest({x \in possibilities : IsClose(x, word)}, word)
    IN SubSeq(close, 1, Min(n_close, Len(close)))

-----------------------------------------------------------------------------
(* selection_helper, lines 105-124: one action per input().  The printing   *)
(* of lines 110-113 and 120 changes nothing the function returns and is not *)
(* kept.  options is never empty where the code calls it.                   *)

DecimalChars == {"0", "1", "2", "3", "4", "5", "6", "7", "8", "9"}
\* str.isdigit() is also True of the superscript digits, which int() refuses;
\* "^2" stands for the one character SUPERSCRIPT TWO
SuperscriptChars == {"^2"}

isdigit(s) ==
    s # <<>> /\ \A n \in 1..Len(s) : s[n] \in DecimalChars \cup SuperscriptChars

DigitValue(c) ==
    CASE c = "0" -> 0 [] c = "1" -> 1 [] c = "2" -> 2 [] c = "3" -> 3
      [] c = "4" -> 4 [] c = "5" -> 5 [] c = "6" -> 6 [] c = "7" -> 7
      [] c = "8" -> 8 [] c = "9" -> 9

RECURSIVE Decimal(_)
Decimal(s) ==
    IF s = <<>> THEN 0
    ELSE 10 * Decimal(SubSeq(s, 1, Len(s) - 1)) + DigitValue(s[Len(s)])

\* int(s) of a string isdigit() accepted
int(s) ==
    IF \A n \in 1..Len(s) : s[n] \in DecimalChars
    THEN Ok(Decimal(s))
    ELSE Raise("ValueError")

\* what the operator may type at "Selection: "
SelectionInputs ==
    {<<>>, <<"0">>, <<"1">>, <<"2">>, <<"3">>, <<"4">>, <<"5">>,
     <<"0", "2">>, <<"1", "0">>, <<"x">>, <<"^2">>}

\* lines 116-123 for one input: the function's next position and ix
SelectionStep(text) ==
    IF isdigit(text)
    THEN LET v == int(text)
         IN IF v.err # "" THEN [pc |-> "error", err |-> v.err, ix |-> None]
            ELSE IF v.val - 1 < 0 \/ v.val - 1 >= Len(options)
                 THEN [pc |-> "select", err |-> "", ix |-> None]
                 ELSE [pc |-> "selected", err |-> "", ix |-> v.val - 1]
    ELSE [pc |-> "select", err |-> "", ix |-> None]

SelectionInput ==
    /\ pc = "select"
    /\ \E text \in SelectionInputs :
         LET step == SelectionStep(text)
         IN /\ entered' = text
            /\ ix' = step.ix
            /\ pc' = step.pc
            /\ err' = step.err
    /\ UNCHANGED <<options, rows, roster, k, normVars, forumVars, extVars>>

NoneOption == <<"(", "N", "o", "n", "e", ")">>

RosterKeys == {<<"a", "b">>, <<"a", "b", "c">>, <<"a", "b", "d">>, <<"A", "b", "c">>}
\* the e-mail each key has when the course file holds it; two keys of one
\* student, stored in two spellings, share theirs
KeyEmail(key) ==
    CASE key = <<"a", "b">> -> "al@x.edu"
      [] key = <<"a", "b", "c">> -> "jane@x.edu"
      [] key = <<"A", "b", "c">> -> "jane@x.edu"
      [] key = <<"a", "b", "d">> -> "bob@x.edu"

OptionLists == Str(MaxRoster, RosterKeys) \ {<<>>}

SelectInit ==
    /\ pc = "select" /\ err = ""
    /\ options \in {Append(o, NoneOption) : o \in OptionLists}
    /\ entered = <<>> /\ ix = None
    /\ IdleNorm /\ IdleBuild /\ IdleForum /\ IdleExtend

SelectNext == SelectionInput

SpecSelect == SelectInit /\ [][SelectNext]_vars

-----------------------------------------------------------------------------
(* main_extend, lines 228-285.  The roster is the course file's "roster"    *)
(* table, whatever keys the file holds; assignments are numbered            *)
(* 1..nassign.  A call of apply_extension is recorded with the e-mail and   *)
(* the days it was given, the assignment it was made on, and (by) the loop  *)
(* pass that made it: <<"name", i>> or <<"ambig", j>>.                       *)

default_length == 5
DayValues == {default_length, default_length + 2}

QueryNames ==
    {<<"a", "b", "c">>, <<"A", "b", "c">>, <<"a", "b", "x">>, <<"z", "z">>}

Rosters ==
    {[key \in keys |-> KeyEmail(key)] :
        keys \in {K \in SUBSET RosterKeys : Cardinality(K) <= MaxRoster}}

\* lines 273-274 and 284-285: one call per assignment, in the list's order
ApplyFirstOnly(email, by) ==
    [a \in 1..Min(nassign, 1) |->
        [email |-> email, days |-> days, assignment |-> a, by |-> by]]
ApplyToAll(email, by) ==
    [a \in 1..nassign |->
        [email |-> email, days |-> days, assignment |-> a, by |-> by]]

\* line 268
QueueFirst(queue, entry) == <<entry>> \o queue
Queue(queue, entry) == Append(queue, entry)

\* line 279: ix == len(options), options being the candidates without "(None)"
IsNone(index, candidates) == index = Len(candidates)

\* line 282: options[ix], Python counting from 0
ChosenNext(candidates, index) == candidates[Min(index + 2, Len(candidates))]
Chosen(candidates, index) == candidates[index + 1]

ExtInit ==
    /\ pc = "start" /\ err = ""
    /\ names \in Str(MaxNames, QueryNames)
    /\ roster \in Rosters
    /\ nassign \in 0..MaxAssign
    /\ days \in DayValues
    /\ i = 1 /\ ambig_names = <<>> /\ j = 1 /\ calls = <<>> /\ out = <<>>
    /\ rows = <<>> /\ k = 0
    /\ IdleNorm /\ IdleForum /\ IdleSelect

\* lines 238-255
ExtendStart ==
    /\ pc = "start"
    /\ pc' = IF Len(names) = 0 THEN "exited" ELSE "match"
    /\ UNCHANGED <<err, rows, roster, k, normVars, forumVars, extVars, selVars>>

\* lines 257-274, one pass of the loop.  With one close match line 262 reads
\* close_matches[1] of a list of one element and raises IndexError.
MatchName ==
    /\ pc = "match" /\ i <= Len(names)
    /\ LET student_name == lower(names[i])
           close_matches == get_close_matches(student_name, DOMAIN roster)
       IN IF student_name \in DOMAIN roster
          THEN /\ out' = Append(out, <<"student", student_name, roster[student_name]>>)
               /\ calls' = calls \o ApplyToAll(roster[student_name], <<"name", i>>)
               /\ i' = i + 1
               /\ UNCHANGED <<pc, err, ambig_names>>
          ELSE IF Len(close_matches) = 1
          THEN /\ pc' = "error" /\ err' = "IndexError"
               /\ UNCHANGED <<out, calls, i, ambig_names>>
          ELSE IF Len(close_matches) = 0
          THEN /\ out' = Append(out, <<"not found", student_name>>)
               /\ i' = i + 1
               /\ UNCHANGED <<pc, err, calls, ambig_names>>
          ELSE /\ out' = Append(out, <<"at least", student_name, Len(close_matches)>>)
               /\ ambig_names' = Queue(ambig_names, <<student_name, close_matches>>)
               /\ i' = i + 1
               /\ UNCHANGED <<pc, err, calls>>
    /\ UNCHANGED <<j, names, nassign, days>>
    /\ UNCHANGED <<rows, roster, k, normVars, forumVars, selVars>>

\* the first loop is over: line 276
MatchEnd ==
    /\ pc = "match" /\ i > Len(names)
    /\ pc' = "resolve"
    /\ UNCHANGED <<err, rows, roster, k, normVars, forumVars, extVars, selVars>>

\* lines 276-278 up to selection_helper's first input()
Present ==
    /\ pc = "resolve" /\ j <= Len(ambig_names)
    /\ out' = Append(out, <<"close matches", ambig_names[j][1]>>)
    /\ options' = Append(ambig_names[j][2], NoneOption)
    /\ entered' = <<>> /\ ix' = None
    /\ pc' = "select"
    /\ UNCHANGED <<err, names, nassign, days, i, ambig_names, j, calls>>
    /\ UNCHANGED <<rows, roster, k, normVars, forumVars>>

\* lines 279-285, after selection_helper has returned ix
Resolve ==
    /\ pc = "selected" /\ j \in 1..Len(ambig_names)
    /\ LET ambig_name == ambig_names[j][1]
           candidates == ambig_names[j][2]
       IN IF IsNone(ix, candidates)
          THEN /\ out' = Append(out, <<"skipping", ambig_name>>)
               /\ UNCHANGED calls
          ELSE LET student_name == Chosen(candidates, ix)
               IN /\ out' = Append(out, <<"student", student_name, roster[student_name]>>)
                  /\ calls' = calls \o ApplyToAll(roster[student_name], <<"ambig", j>>)
    /\ j' = j + 1
    /\ pc' = "resolve"
    /\ UNCHANGED <<err, ix, names, nassign, days, i, ambig_names>>
    /\ UNCHANGED <<rows, roster, k, normVars, forumVars>>
    \* selection_helper's frame is gone
    /\ options' = <<>> /\ entered' = <<>>

\* the second loop is over: main_extend returns
ExtendReturn ==
    /\ pc = "resolve" /\ j > Len(ambig_names)
    /\ pc' = "done"
    /\ UNCHANGED <<err, rows, roster, k, normVars, forumVars, extVars, selVars>>

Init == ExtInit

Next ==
    \/ ExtendStart
    \/ MatchName
    \/ MatchEnd
    \/ Present
    \/ SelectionInput
    \/ Resolve
    \/ ExtendReturn

Spec == Init /\ [][Next]_vars

-----------------------------------------------------------------------------
(* Properties of normalize_name and read_gradescope_roster.                 *)

Commas(s) == Cardinality({n \in 1..Len(s) : s[n] = ","})

\* "Last, First" rewritten to "First Last", both parts stripped
FirstLast(s) ==
    LET parts == split(s, <<",">>)
    IN strip(parts[2]) \o <<" ">> \o strip(parts[1])

\* C1: normalize_name never ends in an error; an argument with exactly one
\* comma gives "First Last" with both parts stripped ("Doe, Jane" gives
\* "Jane Doe"), and an argument without a comma is returned unchanged.
NormalizeNameTotal ==
    pc # "normalize" =>
        /\ err = ""
        /\ Commas(name_str) = 1 => name = FirstLast(name_str)
        /\ Commas(name_str) = 0 => name = name_str
        /\ name_str = DoeJane => name = JaneDoe

\* the student rows among the first n rows
StudentRows(n) == {m \in 1..n : rows[m][4] = "Student"}

Intended(s) == IF Commas(s) = 0 THEN s ELSE FirstLast(s)

\* C6: read_gradescope_roster ends without an error with a roster that has an
\* entry exactly for the rows whose role is "Student", keyed by the
\* normalised name with its case kept and valued by the row's e-mail (of the
\* last such row, for a key that occurs twice); the rows ("Doe, Jane", "S1",
\* "jane@x.edu", "Student"), ("Smith, Bob", "S2", "bob@x.edu", "TA") give
\* exactly {"Jane Doe": "jane@x.edu"}.
GradescopeRosterBuilt ==
    /\ err = ""
    /\ pc = "done" =>
        /\ DOMAIN roster = {Intended(rows[m][1]) : m \in StudentRows(Len(rows))}
        /\ \A m \in StudentRows(Len(rows)) :
             (\A l \in StudentRows(Len(rows)) :
                 l > m => Intended(rows[l][1]) # Intended(rows[m][1]))
             => roster[Intended(rows[m][1])] = rows[m][3]
        /\ rows = << <<DoeJane, "S1", "jane@x.edu", "Student">>,
                     <<SmithBob, "S2", "bob@x.edu", "TA">> >>
             => roster = [n \in {JaneDoe} |-> "jane@x.edu"]

-----------------------------------------------------------------------------
(* Properties of the forum roster build.                                    *)

\* what the build has to make of the n-th forum user: the lowercased name,
\* and the first of the user's e-mails that is in the valid set (None without
\* one)
Handled(n) ==
    LET candidates == split(students[n].email, <<",", " ">>)
        hits == {m \in 1..Len(candidates) : candidates[m] \in valid_emails}
    IN [student |-> students[n].role = "student",
        lname |-> lower(students[n].name),
        first |-> IF hits = {} THEN None
                  ELSE candidates[CHOOSE m \in hits : \A l \in hits : m <= l]]

InSeq(x, seq) == \E n \in 1..Len(seq) : seq[n] = x

\* C7, as claimed: every forum student handled so far is bound under their
\* lowercased name to the first of their e-mails that is in the valid set; a
\* student without one has no roster entry and is in the unmatched list.
ForumEveryStudentBound ==
    \A n \in 1..(k - 1) :
        LET h == Handled(n)
        IN h.student =>
             IF h.first # None
             THEN h.lname \in DOMAIN roster /\ roster[h.lname] = h.first
             ELSE h.lname \notin DOMAIN roster /\ InSeq(h.lname, sans_emails)

\* C7, amended: the build never ends in an error; the roster's keys are the
\* lowercased names of the students handled so far that have an e-mail in the
\* valid set, each bound to the first valid e-mail of the last such student of
\* that name (last write wins); the unmatched list holds, in order, the
\* lowercased names of the students without a valid e-mail.
ForumRosterLastWriteWins ==
    LET h == [n \in 1..(k - 1) |-> Handled(n)]
        matched == {n \in 1..(k - 1) : h[n].student /\ h[n].first # None}
        unmatched == {n \in 1..(k - 1) : h[n].student /\ h[n].first = None}
    IN /\ err = "" /\ pc \in {"forum_users", "done"}
       /\ DOMAIN roster = {h[n].lname : n \in matched}
       /\ \A n \in matched :
            (\A m \in matched : m > n => h[m].lname # h[n].lname)
            => roster[h[n].lname] = h[n].first
       /\ Len(sans_emails) = Cardinality(unmatched)
       /\ \A n \in unmatched :
            sans_emails[Cardinality({m \in unmatched : m <= n})] = h[n].lname
       /\ pc = "done" => k = Len(students) + 1

\* C7, reached: the build is over, one student's second e-mail was the first
\* valid one and is the one bound, and another student went to the unmatched
\* list.
ForumSecondEmailBound ==
    /\ pc = "done" /\ sans_emails # <<>>
    /\ \E n \in 1..Len(students) :
         LET candidates == split(students[n].email, <<",", " ">>)
         IN /\ students[n].role = "student" /\ Len(candidates) = 2
            /\ candidates[1] \notin valid_emails /\ candidates[2] \in valid_emails
            /\ roster[lower(students[n].name)] = candidates[2]

-----------------------------------------------------------------------------
(* Properties of selection_helper.                                          *)

\* a selection that is no decimal number of 1..n
Malformed(text, n) ==
    ~ /\ text # <<>>
      /\ \A m \in 1..Len(text) : text[m] \in DecimalChars
      /\ Decimal(text) \in 1..n

\* C10: selection_helper never ends in an error; after a malformed input
\* (not a number, or a number outside 1..len(options)) it has returned nothing
\* and is prompting again; after a well-formed one it has returned the entered
\* number minus one, which is in 0..len(options)-1.
SelectionRejectsMalformed ==
    /\ err = "" /\ pc \in {"select", "selected"}
    /\ Malformed(entered, Len(options)) => pc = "select" /\ ix = None
    /\ ~Malformed(entered, Len(options)) =>
         /\ pc = "selected"
         /\ ix = Decimal(entered) - 1
         /\ ix \in 0..(Len(options) - 1)

-----------------------------------------------------------------------------
(* Properties of main_extend.                                               *)

Lowered(p) == lower(names[p])
IsExact(p) == Lowered(p) \in DOMAIN roster
CloseTo(p) == get_close_matches(Lowered(p), DOMAIN roster)
NotFound(p) == ~IsExact(p) /\ Len(CloseTo(p)) = 0
OneClose(p) == ~IsExact(p) /\ Len(CloseTo(p)) = 1
Ambiguous(p) == ~IsExact(p) /\ Len(CloseTo(p)) > 1

\* the pass of the first loop over names[p] has run (to its end or its error)
Passed(p) == pc # "start" /\ (p < i \/ (p = i /\ pc = "error"))

RECURSIVE CallsFrom(_, _)
CallsFrom(n, by) ==
    IF n = 0 THEN <<>>
    ELSE IF calls[n].by = by THEN Append(CallsFrom(n - 1, by), calls[n])
         ELSE CallsFrom(n - 1, by)

\* the calls one loop pass has made, in order
CallsBy(by) == CallsFrom(Len(calls), by)

\* one call per filtered assignment, in the list's order, with this e-mail and
\* the requested days
OnePerAssignment(email, by) ==
    [a \in 1..nassign |->
        [email |-> email, days |-> days, assignment |-> a, by |-> by]]

Tagged(tag) == {n \in 1..Len(out) : out[n][1] = tag}

\* C2: a name equal to a roster key k up to letter case is resolved as an
\* exact match to roster[k]: its pass does not end in an error, makes the
\* extension calls with roster[k], and the name is neither reported as not
\* found nor as having several matches, nor queued as ambiguous.
ExactIgnoringCase ==
    \A p \in 1..Len(names) : \A key \in DOMAIN roster :
        (lower(key) = Lowered(p) /\ Passed(p)) =>
            /\ ~(pc = "error" /\ i = p)
            /\ CallsBy(<<"name", p>>) = OnePerAssignment(roster[key], <<"name", p>>)
            /\ \A n \in 1..Len(out) :
                 out[n][2] = Lowered(p) => out[n][1] = "student"
            /\ \A n \in 1..Len(ambig_names) : ambig_names[n][1] # Lowered(p)

\* C3: a name that is no roster key and has exactly one close match is bound
\* to that candidate: its pass does not end in an error and makes the
\* extension calls, one per filtered assignment, with the candidate's e-mail.
SingleCandidateBound ==
    \A p \in 1..Len(names) :
        (OneClose(p) /\ Passed(p)) =>
            /\ err = ""
            /\ CallsBy(<<"name", p>>)
                 = OnePerAssignment(roster[CloseTo(p)[1]], <<"name", p>>)

\* main_extend has ended: by its return, its exit or an uncaught exception
Ended == pc \in {"done", "exited", "error"}

\* C4: a name without a close match gets no extension call, and the run
\* continues: when main_extend has ended, every later name has had its pass,
\* and every later exact match its extension calls.
NotFoundContinues ==
    \A p \in 1..Len(names) :
        (NotFound(p) /\ Passed(p)) =>
            /\ CallsBy(<<"name", p>>) = <<>>
            /\ Ended =>
                 \A q \in (p + 1)..Len(names) :
                     /\ q < i
                     /\ IsExact(q) =>
                          CallsBy(<<"name", q>>)
                            = OnePerAssignment(roster[Lowered(q)], <<"name", q>>)

\* where out holds the line that presented the q-th queued ambiguity, and the
\* line printed next: "skipping", or the student the operator selected
PresentedAt(q) ==
    CHOOSE n \in Tagged("close matches") :
        Cardinality({m \in Tagged("close matches") : m <= n}) = q
Outcome(q) == out[PresentedAt(q) + 1]
Selected(q) == Outcome(q)[1] = "student"

\* the students resolved so far, by an exact match or by the operator
ResolvedStudents == {out[n][2] : n \in Tagged("student")}

\* C5, as claimed: when main_extend returns, for every resolved student and
\* every filtered assignment there has been exactly one call with that
\* student's e-mail and the requested days, and N resolved students and M
\* assignments have given N*M calls.
OneCallPerStudent ==
    pc = "done" =>
        /\ \A student \in ResolvedStudents : \A a \in 1..nassign :
             Cardinality({c \in 1..Len(calls) :
                            /\ calls[c].email = roster[student]
                            /\ calls[c].days = days
                            /\ calls[c].assignment = a}) = 1
        /\ Len(calls) = Cardinality(ResolvedStudents) * nassign

\* C5, amended: when main_extend returns, every name that was an exact match
\* and every queued ambiguity the operator resolved to a candidate has made
\* exactly one call per filtered assignment, with the resolved student's
\* roster e-mail and the requested days; no other pass has made a call; so N
\* resolutions (a student named twice counts twice) and M assignments have
\* given N*M calls.
OneCallPerResolution ==
    pc = "done" =>
        /\ \A p \in 1..Len(names) :
             CallsBy(<<"name", p>>)
               = IF IsExact(p)
                 THEN OnePerAssignment(roster[Lowered(p)], <<"name", p>>)
                 ELSE <<>>
        /\ \A q \in 1..Len(ambig_names) :
             /\ Selected(q) => InSeq(Outcome(q)[2], ambig_names[q][2])
             /\ CallsBy(<<"ambig", q>>)
                  = IF Selected(q)
                    THEN OnePerAssignment(roster[Outcome(q)[2]], <<"ambig", q>>)
                    ELSE <<>>
        /\ Len(calls)
             = (Cardinality({p \in 1..Len(names) : IsExact(p)})
                + Cardinality({q \in 1..Len(ambig_names) : Selected(q)})) * nassign

\* C5, reached: main_extend has returned after an exact match and an
\* operator's selection, with two assignments and so four calls.
ExactAndSelectedDone ==
    /\ pc = "done" /\ nassign = 2 /\ Len(calls) = 4
    /\ \E p \in 1..Len(names) : IsExact(p)
    /\ \E q \in 1..Len(ambig_names) : Selected(q)

\* The first loop prints one line per name, so out[p] is the line of names[p]:
\* the lowercased names among the first n that were queued ("at least ..."),
\* in the order they were given
RECURSIVE QueuedUpTo(_)
QueuedUpTo(n) ==
    IF n = 0 THEN <<>>
    ELSE IF out[n][1] = "at least" THEN Append(QueuedUpTo(n - 1), Lowered(n))
         ELSE QueuedUpTo(n - 1)

\* the names of the ambiguities presented so far, in the order presented
Presented ==
    LET lines == Tagged("close matches")
    IN [q \in 1..Cardinality(lines) |->
          out[CHOOSE n \in lines : Cardinality({m \in lines : m <= n}) = q][2]]

\* C8: once an ambiguity is presented, every name has had its pass and every
\* exact match its extension calls; no call of the first loop follows a call
\* of the second; and the ambiguities are presented one by one, after the
\* first loop, in the order their names were given.
AmbiguitiesAfterMatching ==
    LET presented == Presented
    IN /\ (pc \in {"select", "selected"} \/ presented # <<>>) =>
            /\ i = Len(names) + 1
            /\ \A p \in 1..Len(names) :
                 /\ out[p][2] = Lowered(p)
                 /\ IsExact(p) =>
                      CallsBy(<<"name", p>>)
                        = OnePerAssignment(roster[Lowered(p)], <<"name", p>>)
            /\ presented = SubSeq(QueuedUpTo(Len(names)), 1, Len(presented))
            /\ Len(ambig_names) = Len(QueuedUpTo(Len(names)))
       /\ \A c, d \in 1..Len(calls) :
            (c < d /\ calls[c].by[1] = "ambig") => calls[d].by[1] = "ambig"
       /\ pc \in {"select", "selected"} => Len(presented) = j
       /\ pc \in {"resolve", "done"} => Len(presented) = j - 1
       /\ pc \in {"start", "match", "error", "exited"} /\ i <= Len(names)
            => presented = <<>>

\* C8, reached: the prompt for the first name is up, and the second name, an
\* exact match given after it, already has its two calls.
PromptAfterLaterExact ==
    /\ pc = "select" /\ Len(names) = 2 /\ nassign = 2
    /\ Ambiguous(1) /\ IsExact(2)
    /\ Len(calls) = 2

\* C9: when the pass for a queued ambiguity is over and the next one is not
\* yet presented, then with "(None)" selected no call has been made for it and
\* the skip is printed, and otherwise the selected candidate's e-mail has
\* gone to one call per filtered assignment; an ambiguity not yet resolved
\* has no call.
SelectionAppliedAtOnce ==
    /\ (pc \in {"resolve", "done"} /\ j > 1) =>
         LET q == j - 1
             ambig_name == ambig_names[q][1]
             candidates == ambig_names[q][2]
         IN /\ ix \in 0..Len(candidates)
            /\ IF ix = Len(candidates)
               THEN /\ CallsBy(<<"ambig", q>>) = <<>>
                    /\ out[Len(out)] = <<"skipping", ambig_name>>
               ELSE /\ CallsBy(<<"ambig", q>>)
                         = OnePerAssignment(roster[candidates[ix + 1]], <<"ambig", q>>)
                    /\ out[Len(out)]
                         = <<"student", candidates[ix + 1], roster[candidates[ix + 1]]>>
    /\ pc = "selected" => options[ix + 1] = (ambig_names[j][2] \o <<NoneOption>>)[ix + 1]
    /\ \A q \in 1..Len(ambig_names) :
         IF q < j
         THEN CallsBy(<<"ambig", q>>)
                = IF Selected(q)
                  THEN OnePerAssignment(roster[Outcome(q)[2]], <<"ambig", q>>)
                  ELSE <<>>
         ELSE CallsBy(<<"ambig", q>>) = <<>>

\* C9, reached: main_extend has returned after the operator skipped the first
\* ambiguity and selected the second candidate of the second, with two
\* assignments.
SkippedThenSelected ==
    /\ pc = "done" /\ Len(ambig_names) = 2 /\ nassign = 2
    /\ ~Selected(1) /\ Selected(2)
    /\ ix = 1 /\ Len(calls) = 2

=============================================================================
